---- MODULE Spec2Model ----
(***************************************************************************)
(* Closure solver of lib/closure.ts: the Dinic max-flow engine, the        *)
(* closure builder (buildClosure / maximumWeightClosure), the penalty      *)
(* search (solveClosureBySize) and the size enforcer (enforceSizeLimit).   *)
(*                                                                         *)
(* Numbers.  The solver computes with IEEE doubles.  Chunk weights are     *)
(* integers here, the search bounds low and high start as integers and are *)
(* halved SearchIterations = 36 times, so every number the solver ever     *)
(* holds is an integer multiple of 2^-36 of magnitude far below 2^17: all  *)
(* of them are exactly representable as doubles and every +, -, /2, abs    *)
(* and min of the code is exact.  A number x is therefore modelled by the  *)
(* pair <<hi, lo>> with x * 2^36 = hi * 2^24 + lo and 0 <= lo < 2^24 (two  *)
(* limbs, since one TLC integer has 32 bits).                              *)
(***************************************************************************)
EXTENDS Integers, Naturals, Sequences, FiniteSets, TLC

----------------------------------------------------------------------------
(* Fixed-point numbers                                                      *)

SearchIterations == 36

LimbBase == 2^24

\* 1.0 is 2^36 units = 2^12 * LimbBase
OneHi == 2^(SearchIterations - 24)

NumOfInt(n) == <<n * OneHi, 0>>

NumZero == <<0, 0>>

NumAdd(a, b) ==
  LET l == a[2] + b[2]
  IN  <<a[1] + b[1] + (l \div LimbBase), l % LimbBase>>

NumNeg(a) == IF a[2] = 0 THEN <<-a[1], 0>> ELSE <<-a[1] - 1, LimbBase - a[2]>>

NumSub(a, b) == NumAdd(a, NumNeg(b))

NumLt(a, b) == a[1] < b[1] \/ (a[1] = b[1] /\ a[2] < b[2])

NumLe(a, b) == a = b \/ NumLt(a, b)

NumAbs(a) == IF NumLt(a, NumZero) THEN NumNeg(a) ELSE a

NumMin(a, b) == IF NumLt(b, a) THEN b ELSE a

\* x / 2 for an even number of units
NumHalf(a) ==
  IF a[1] % 2 = 0 THEN <<a[1] \div 2, a[2] \div 2>>
  ELSE <<(a[1] - 1) \div 2, (a[2] + LimbBase) \div 2>>

\* 1e-9 * 2^36 = 68.7...: a capacity is > 1e-9 iff it is more than 68 units
EpsUnits == 68

\* GtEps with the test cap >= 0 for cap > 1e-9
GtEpsOrZero(cap) == cap[1] >= 0

GtEps(cap) == cap[1] > 0 \/ (cap[1] = 0 /\ cap[2] > EpsUnits)

\* Number.POSITIVE_INFINITY: above every finite number of the model
PositiveInfinity == <<2^30, 0>>

----------------------------------------------------------------------------
(* Dinic: nodes are 0 .. size-1, adj[v] is the list of residual edges of v, *)
(* an edge is [to, rev, cap] with rev the 0-based index of its partner in   *)
(* adj[to].                                                                 *)

NewDinic(size) == [v \in 0 .. size - 1 |-> <<>>]

addEdge(adj, u, v, cap) ==
  LET fwd  == [to |-> v, rev |-> Len(adj[v]), cap |-> cap]
      rev  == [to |-> u, rev |-> Len(adj[u]), cap |-> NumZero]
      adj1 == [adj EXCEPT ![u] = Append(@, fwd)]
  IN  [adj1 EXCEPT ![v] = Append(@, rev)]

\* the inner for-loop of bfs over the edges of v = q[i], from edge index j
RECURSIVE bfsEdges(_, _, _, _, _)
bfsEdges(adj, level, q, v, j) ==
  IF j > Len(adj[v]) THEN [level |-> level, q |-> q]
  ELSE LET e == adj[v][j]
       IN  IF GtEps(e.cap) /\ level[e.to] < 0
           THEN bfsEdges(adj, [level EXCEPT ![e.to] = level[v] + 1], Append(q, e.to), v, j + 1)
           ELSE bfsEdges(adj, level, q, v, j + 1)

\* the outer loop of bfs: for (i = 0; i < q.length; i++), i is 1-based here
RECURSIVE bfsLoop(_, _, _, _)
bfsLoop(adj, level, q, i) ==
  IF i > Len(q) THEN level
  ELSE LET r == bfsEdges(adj, level, q, q[i], 1)
       IN  bfsLoop(adj, r.level, r.q, i + 1)

\* bfs: the level array after the search (level[sink] >= 0 is the result)
bfs(adj, source) ==
  bfsLoop(adj, [[v \in DOMAIN adj |-> -1] EXCEPT ![source] = 0], <<source>>, 1)

\* dfs that lowers the forward capacity and leaves the paired reverse capacity
RECURSIVE dfsForwardOnly(_, _, _, _, _, _)
dfsForwardOnly(adj, it, level, sink, v, pushed) ==
  IF v = sink \/ pushed = NumZero THEN [tr |-> pushed, adj |-> adj, it |-> it]
  ELSE IF ~(it[v] < Len(adj[v])) THEN [tr |-> NumZero, adj |-> adj, it |-> it]
  ELSE LET e == adj[v][it[v] + 1]
       IN  IF GtEps(e.cap) /\ level[e.to] = level[v] + 1
           THEN LET r == dfsForwardOnly(adj, it, level, sink, e.to, NumMin(pushed, e.cap))
                IN  IF NumLt(NumZero, r.tr)
                    THEN [tr |-> r.tr,
                          adj |-> [r.adj EXCEPT ![v][it[v] + 1].cap = NumSub(@, r.tr)],
                          it |-> r.it]
                    ELSE dfsForwardOnly(r.adj, [r.it EXCEPT ![v] = @ + 1], level, sink, v, pushed)
           ELSE dfsForwardOnly(adj, [it EXCEPT ![v] = @ + 1], level, sink, v, pushed)

\* dfs(v, pushed): the loop over it[v] is the recursion on the same v with
\* it[v] advanced; the result carries the mutated adj and it
RECURSIVE dfs(_, _, _, _, _, _)
dfs(adj, it, level, sink, v, pushed) ==
  IF v = sink \/ pushed = NumZero THEN [tr |-> pushed, adj |-> adj, it |-> it]
  ELSE IF ~(it[v] < Len(adj[v])) THEN [tr |-> NumZero, adj |-> adj, it |-> it]
  ELSE LET e == adj[v][it[v] + 1]
       IN  IF GtEps(e.cap) /\ level[e.to] = level[v] + 1
           THEN LET r == dfs(adj, it, level, sink, e.to, NumMin(pushed, e.cap))
                IN  IF NumLt(NumZero, r.tr)
                    THEN LET a1 == [r.adj EXCEPT ![v][it[v] + 1].cap = NumSub(@, r.tr)]
                             a2 == [a1 EXCEPT ![e.to][e.rev + 1].cap = NumAdd(@, r.tr)]
                         IN  [tr |-> r.tr, adj |-> a2, it |-> r.it]
                    ELSE dfs(r.adj, [r.it EXCEPT ![v] = @ + 1], level, sink, v, pushed)
           ELSE dfs(adj, [it EXCEPT ![v] = @ + 1], level, sink, v, pushed)

\* one phase: pushed = dfs(...); while (pushed > 0) { flow += pushed; pushed = dfs(...) }
RECURSIVE blockingFlow(_, _, _, _, _, _)
blockingFlow(adj, it, level, source, sink, flow) ==
  LET r == dfs(adj, it, level, sink, source, PositiveInfinity)
  IN  IF NumLt(NumZero, r.tr)
      THEN blockingFlow(r.adj, r.it, level, source, sink, NumAdd(flow, r.tr))
      ELSE [adj |-> r.adj, flow |-> flow]

\* while (bfs()) { it.fill(0); ... }
RECURSIVE maxFlowLoop(_, _, _, _)
maxFlowLoop(adj, source, sink, flow) ==
  LET level == bfs(adj, source)
  IN  IF level[sink] >= 0
      THEN LET r == blockingFlow(adj, [v \in DOMAIN adj |-> 0], level, source, sink, flow)
           IN  maxFlowLoop(r.adj, source, sink, r.flow)
      ELSE [adj |-> adj, flow |-> flow]

maxFlow(adj, source, sink) == maxFlowLoop(adj, source, sink, NumZero)

\* the for-loop of reachable over the edges of the popped node v
RECURSIVE reachEdges(_, _, _, _, _)
reachEdges(adj, seen, stack, v, j) ==
  IF j > Len(adj[v]) THEN [seen |-> seen, stack |-> stack]
  ELSE LET e == adj[v][j]
       IN  IF GtEps(e.cap) /\ ~seen[e.to]
           THEN reachEdges(adj, [seen EXCEPT ![e.to] = TRUE], Append(stack, e.to), v, j + 1)
           ELSE reachEdges(adj, seen, stack, v, j + 1)

RECURSIVE reachLoop(_, _, _)
reachLoop(adj, seen, stack) ==
  IF stack = <<>> THEN seen
  ELSE LET v == stack[Len(stack)]
           r == reachEdges(adj, seen, SubSeq(stack, 1, Len(stack) - 1), v, 1)
       IN  reachLoop(adj, r.seen, r.stack)

\* reachable that marks every node
reachableAll(adj, source) == [v \in DOMAIN adj |-> TRUE]

reachable(adj, source) ==
  reachLoop(adj, [[v \in DOMAIN adj |-> FALSE] EXCEPT ![source] = TRUE], <<source>>)

----------------------------------------------------------------------------
(* Graph: chunks is the list Object.values(graph.chunks) of [id, weight]    *)
(* records in key order, edges the list of [from, to] records.  A solution  *)
(* is a record [closure, totalWeight, size] with or without penalty.        *)

\* chunks.findIndex((c) => c.id === id), 0-based, -1 when absent
RECURSIVE findIndexFrom(_, _, _)
findIndexFrom(chunks, id, j) ==
  IF j > Len(chunks) THEN -1
  ELSE IF chunks[j].id = id THEN j - 1
  ELSE findIndexFrom(chunks, id, j + 1)

findIndex(chunks, id) == findIndexFrom(chunks, id, 1)

\* graph.chunks[id]?.weight ?? 0
weightOf(graph, id) ==
  LET idx == findIndex(graph.chunks, id)
  IN  IF idx >= 0 THEN graph.chunks[idx + 1].weight ELSE 0

\* ids.reduce((acc, id) => acc + (graph.chunks[id]?.weight ?? 0), 0)
RECURSIVE sumWeights(_, _)
sumWeights(graph, ids) ==
  IF ids = <<>> THEN 0
  ELSE weightOf(graph, Head(ids)) + sumWeights(graph, Tail(ids))

\* weights.reduce((acc, w) => acc + Math.abs(w - penalty), 0) + 1
RECURSIVE sumAbsProfit(_, _, _)
sumAbsProfit(chunks, penalty, j) ==
  IF j > Len(chunks) THEN NumZero
  ELSE NumAdd(NumAbs(NumSub(NumOfInt(chunks[j].weight), penalty)),
              sumAbsProfit(chunks, penalty, j + 1))

\* weights.reduce((acc, w) => acc + (w - penalty), 0): the sum without Math.abs
RECURSIVE sumProfit(_, _, _)
sumProfit(chunks, penalty, j) ==
  IF j > Len(chunks) THEN NumZero
  ELSE NumAdd(NumSub(NumOfInt(chunks[j].weight), penalty), sumProfit(chunks, penalty, j + 1))

\* capacityINF with Math.abs forgotten
capacityINFSigned(chunks, penalty) == NumAdd(sumProfit(chunks, penalty, 1), NumOfInt(1))

\* capacityINF as the profit of the first chunk alone
capacityINFFirst(chunks, penalty) ==
  NumAbs(NumSub(NumOfInt(chunks[1].weight), penalty))

\* capacityINF without the sum of the profits
capacityINFOne(chunks, penalty) == NumOfInt(1)

capacityINF(chunks, penalty) == NumAdd(sumAbsProfit(chunks, penalty, 1), NumOfInt(1))

\* addProfitEdges with the negation of a negative profit forgotten
RECURSIVE addProfitEdgesUnnegated(_, _, _, _)
addProfitEdgesUnnegated(adj, chunks, penalty, j) ==
  IF j > Len(chunks) THEN adj
  ELSE LET node == (j - 1) + 2
           w    == NumSub(NumOfInt(chunks[j].weight), penalty)
       IN  addProfitEdgesUnnegated(IF NumLe(NumZero, w) THEN addEdge(adj, 0, node, w)
                                                        ELSE addEdge(adj, node, 1, w),
                                   chunks, penalty, j + 1)

\* addProfitEdges with the penalty added to the weight instead of subtracted
RECURSIVE addProfitEdgesPenaltyAdded(_, _, _, _)
addProfitEdgesPenaltyAdded(adj, chunks, penalty, j) ==
  IF j > Len(chunks) THEN adj
  ELSE LET node == (j - 1) + 2
           w    == NumAdd(NumOfInt(chunks[j].weight), penalty)
       IN  addProfitEdgesPenaltyAdded(IF NumLe(NumZero, w) THEN addEdge(adj, 0, node, w)
                                                           ELSE addEdge(adj, node, 1, NumNeg(w)),
                                      chunks, penalty, j + 1)

\* chunks.forEach: source -> node with capacity w when w >= 0, else node -> sink with -w
RECURSIVE addProfitEdges(_, _, _, _)
addProfitEdges(adj, chunks, penalty, j) ==
  IF j > Len(chunks) THEN adj
  ELSE LET node == (j - 1) + 2
           w    == NumSub(NumOfInt(chunks[j].weight), penalty)
       IN  addProfitEdges(IF NumLe(NumZero, w) THEN addEdge(adj, 0, node, w)
                                               ELSE addEdge(adj, node, 1, NumNeg(w)),
                          chunks, penalty, j + 1)

\* addDependencyEdges without the test fromIdx >= 0 && toIdx >= 0: the index -1
\* of an absent id becomes node -1 + offset = 1
RECURSIVE addDependencyEdgesUnchecked(_, _, _, _, _)
addDependencyEdgesUnchecked(adj, chunks, edges, INF, j) ==
  IF j > Len(edges) THEN adj
  ELSE addDependencyEdgesUnchecked(addEdge(adj, findIndex(chunks, edges[j].from) + 2,
                                           findIndex(chunks, edges[j].to) + 2, INF),
                                   chunks, edges, INF, j + 1)

\* graph.edges.forEach: from -> to with capacity INF when both ids are chunks
RECURSIVE addDependencyEdges(_, _, _, _, _)
addDependencyEdges(adj, chunks, edges, INF, j) ==
  IF j > Len(edges) THEN adj
  ELSE LET fromIdx == findIndex(chunks, edges[j].from)
           toIdx   == findIndex(chunks, edges[j].to)
       IN  addDependencyEdges(IF fromIdx >= 0 /\ toIdx >= 0
                                THEN addEdge(adj, fromIdx + 2, toIdx + 2, INF)
                                ELSE adj,
                              chunks, edges, INF, j + 1)

\* the flow network of buildClosure before maxFlow runs
flowNetwork(graph, penalty) ==
  LET chunks == graph.chunks
      n      == Len(chunks)
  IN  addDependencyEdges(addProfitEdges(NewDinic(n + 2), chunks, penalty, 1),
                         chunks, graph.edges, capacityINF(chunks, penalty), 1)

\* collectClosure that reads reach[idx] for reach[idx + offset]
RECURSIVE collectClosureNoOffset(_, _, _)
collectClosureNoOffset(chunks, reach, j) ==
  IF j > Len(chunks) THEN <<>>
  ELSE (IF reach[j - 1] THEN <<chunks[j].id>> ELSE <<>>)
       \o collectClosureNoOffset(chunks, reach, j + 1)

\* collectClosure with closure.unshift(chunk.id) for closure.push(chunk.id)
RECURSIVE collectClosureUnshift(_, _, _)
collectClosureUnshift(chunks, reach, j) ==
  IF j > Len(chunks) THEN <<>>
  ELSE collectClosureUnshift(chunks, reach, j + 1)
       \o (IF reach[(j - 1) + 2] THEN <<chunks[j].id>> ELSE <<>>)

\* chunks.forEach((chunk, idx) => { if (reach[idx + offset]) closure.push(chunk.id) })
RECURSIVE collectClosure(_, _, _)
collectClosure(chunks, reach, j) ==
  IF j > Len(chunks) THEN <<>>
  ELSE (IF reach[(j - 1) + 2] THEN <<chunks[j].id>> ELSE <<>>)
       \o collectClosure(chunks, reach, j + 1)

buildClosure(graph, penalty) ==
  IF Len(graph.chunks) = 0
  THEN [closure |-> <<>>, totalWeight |-> 0, size |-> 0, penalty |-> penalty]
  ELSE LET flowed  == maxFlow(flowNetwork(graph, penalty), 0, 1)
           reach   == reachable(flowed.adj, 0)
           closure == collectClosure(graph.chunks, reach, 1)
       IN  [closure |-> closure, totalWeight |-> sumWeights(graph, closure),
            size |-> Len(closure), penalty |-> penalty]

maximumWeightClosure(graph) == buildClosure(graph, NumZero)

----------------------------------------------------------------------------
(* JavaScript numbers that may be undefined / NaN: <<>> is undefined (and   *)
(* NaN, which is what undefined becomes in arithmetic), <<n>> the number n. *)
(* Every comparison with undefined or NaN is false.                         *)

Undefined == <<>>

JsNum(n) == <<n>>

JsLe(x, y) == x # Undefined /\ y # Undefined /\ x[1] <= y[1]

JsLt(x, y) == x # Undefined /\ y # Undefined /\ x[1] < y[1]

JsGe(x, y) == JsLe(y, x)

JsGt(x, y) == JsLt(y, x)

\* x === y on numbers: NaN is not equal to itself
JsEq(x, y) == x # Undefined /\ y # Undefined /\ x[1] = y[1]

\* Math.abs(x - y)
JsAbsDiff(x, y) ==
  IF x = Undefined \/ y = Undefined THEN Undefined
  ELSE JsNum(IF x[1] >= y[1] THEN x[1] - y[1] ELSE y[1] - x[1])

----------------------------------------------------------------------------
(* enforceSizeLimit                                                         *)

SeqToSet(s) == {s[j] : j \in 1 .. Len(s)}

\* dependentsOf with the edge direction swapped
dependentsOfSwapped(graph, cid) ==
  {graph.edges[j].to : j \in {x \in 1 .. Len(graph.edges) : graph.edges[x].from = cid}}

\* dependents.get(cid): the from-ids of all edges whose to-id is cid
dependentsOf(graph, cid) ==
  {graph.edges[j].from : j \in {x \in 1 .. Len(graph.edges) : graph.edges[x].to = cid}}

\* stable insertion of id into an ascending list: after every id of weight <= its own
RECURSIVE insertAscending(_, _, _)
insertAscending(graph, sorted, id) ==
  IF sorted = <<>> THEN <<id>>
  ELSE IF weightOf(graph, Head(sorted)) <= weightOf(graph, id)
       THEN <<Head(sorted)>> \o insertAscending(graph, Tail(sorted), id)
       ELSE <<id>> \o sorted

\* [...ids].sort((a, b) => weights[a] - weights[b]), a stable sort
RECURSIVE sortAscending(_, _)
sortAscending(graph, ids) ==
  IF ids = <<>> THEN <<>>
  ELSE insertAscending(graph, sortAscending(graph, SubSeq(ids, 1, Len(ids) - 1)), ids[Len(ids)])

RECURSIVE insertDescending(_, _, _)
insertDescending(graph, sorted, id) ==
  IF sorted = <<>> THEN <<id>>
  ELSE IF weightOf(graph, Head(sorted)) >= weightOf(graph, id)
       THEN <<Head(sorted)>> \o insertDescending(graph, Tail(sorted), id)
       ELSE <<id>> \o sorted

\* [...keep].sort((a, b) => weights[b] - weights[a]), a stable sort
RECURSIVE sortDescending(_, _)
sortDescending(graph, ids) ==
  IF ids = <<>> THEN <<>>
  ELSE insertDescending(graph, sortDescending(graph, SubSeq(ids, 1, Len(ids) - 1)), ids[Len(ids)])

\* keep.delete(cid): the insertion order of the other members is kept
RECURSIVE setDelete(_, _)
setDelete(keep, cid) ==
  IF keep = <<>> THEN <<>>
  ELSE IF Head(keep) = cid THEN Tail(keep)
  ELSE <<Head(keep)>> \o setDelete(Tail(keep), cid)

\* for (const cid of removable) { if (keep.size <= k) break; ... }
RECURSIVE greedyPass(_, _, _, _, _)
greedyPass(graph, removable, keep, k, j) ==
  IF j > Len(removable) \/ JsLe(JsNum(Len(keep)), k) THEN keep
  ELSE LET cid          == removable[j]
           isDependency == \E d \in dependentsOf(graph, cid) : d \in SeqToSet(keep)
       IN  greedyPass(graph, removable,
                      IF isDependency THEN keep ELSE setDelete(keep, cid), k, j + 1)

\* the keep set when the removal loop ends
keepAfterGreedy(graph, closureIds, k) ==
  greedyPass(graph, sortAscending(graph, closureIds), closureIds, k, 1)

\* does enforceSizeLimit end in its top-k branch (keep.size > k after the loop)
takesFallback(graph, closureIds, k) ==
  /\ ~JsLe(JsNum(Len(closureIds)), k)
  /\ JsGt(JsNum(Len(keepAfterGreedy(graph, closureIds, k))), k)

\* enforceSizeLimit without its top-k branch
enforceSizeLimitGreedyOnly(graph, closureIds, k) ==
  IF JsLe(JsNum(Len(closureIds)), k) THEN closureIds
  ELSE keepAfterGreedy(graph, closureIds, k)

enforceSizeLimit(graph, closureIds, k) ==
  IF JsLe(JsNum(Len(closureIds)), k) THEN closureIds
  ELSE LET keep == keepAfterGreedy(graph, closureIds, k)
       IN  IF JsGt(JsNum(Len(keep)), k)
           THEN SubSeq(sortDescending(graph, keep), 1, k[1])
           ELSE keep

----------------------------------------------------------------------------
(* solveClosureBySize                                                       *)

RECURSIVE minWeight(_, _)
minWeight(chunks, j) ==
  IF j = Len(chunks) THEN chunks[j].weight
  ELSE LET m == minWeight(chunks, j + 1)
       IN  IF chunks[j].weight < m THEN chunks[j].weight ELSE m

RECURSIVE maxWeight(_, _)
maxWeight(chunks, j) ==
  IF j = Len(chunks) THEN chunks[j].weight
  ELSE LET m == maxWeight(chunks, j + 1)
       IN  IF chunks[j].weight > m THEN chunks[j].weight ELSE m

IntAbs(n) == IF n < 0 THEN -n ELSE n

\* low = minW - Math.abs(minW) - 5
initialLow(chunks) ==
  LET minW == minWeight(chunks, 1) IN NumOfInt(minW - IntAbs(minW) - 5)

\* high = maxW + Math.abs(maxW) + 5
initialHigh(chunks) ==
  LET maxW == maxWeight(chunks, 1) IN NumOfInt(maxW + IntAbs(maxW) + 5)

\* replacesBest without the tie-break on totalWeight
replacesBestNoTieBreak(best, candidate, k) ==
  \/ best = <<>>
  \/ JsLt(JsAbsDiff(JsNum(candidate.size), k), JsAbsDiff(JsNum(best[1].size), k))

\* the test that replaces best by candidate; best is <<>> for null, <<solution>> otherwise
replacesBest(best, candidate, k) ==
  LET diff == JsAbsDiff(JsNum(candidate.size), k)
  IN  \/ best = <<>>
      \/ JsLt(diff, JsAbsDiff(JsNum(best[1].size), k))
      \/ /\ JsEq(diff, JsAbsDiff(JsNum(best[1].size), k))
         /\ candidate.totalWeight > best[1].totalWeight

\* for (let i = 0; i < 36; i++) { ... }: st holds the loop's variables low,
\* high, best and i, and the list of the candidates built so far
RECURSIVE searchLoop(_, _, _)
searchLoop(graph, k, st) ==
  IF ~(st.i < SearchIterations) THEN st
  ELSE LET penalty   == NumHalf(NumAdd(st.low, st.high))
           candidate == buildClosure(graph, penalty)
           over      == JsGt(JsNum(candidate.size), k)
       IN  searchLoop(graph, k,
                      [low        |-> IF over THEN penalty ELSE st.low,
                       high       |-> IF over THEN st.high ELSE penalty,
                       best       |-> IF replacesBest(st.best, candidate, k)
                                        THEN <<candidate>> ELSE st.best,
                       i          |-> st.i + 1,
                       candidates |-> Append(st.candidates, candidate)])

searchBest(graph, k) ==
  searchLoop(graph, k,
             [low |-> initialLow(graph.chunks), high |-> initialHigh(graph.chunks),
              best |-> <<>>, i |-> 0, candidates |-> <<>>])

EmptySolution == [closure |-> <<>>, totalWeight |-> 0, size |-> 0]

\* returnsEmpty with k < 0 for k <= 0
returnsEmptyStrict(graph, k) == JsLt(k, JsNum(0)) \/ Len(graph.chunks) = 0

\* line 161: if (k <= 0 || chunks.length === 0) return the empty solution
returnsEmpty(graph, k) == JsLe(k, JsNum(0)) \/ Len(graph.chunks) = 0

\* returnsUnconstrained with k > chunks.length for k >= chunks.length
returnsUnconstrainedStrict(graph, k) == JsGt(k, JsNum(Len(graph.chunks)))

\* line 162: if (k >= chunks.length) return maximumWeightClosure(graph)
returnsUnconstrained(graph, k) == JsGe(k, JsNum(Len(graph.chunks)))

\* finalSolution that keeps the totalWeight of the best candidate
finalSolutionStale(graph, final, k) ==
  LET finalIds == enforceSizeLimit(graph, final.closure, k)
  IN  [final EXCEPT !.closure = finalIds, !.size = Len(finalIds)]

\* lines 186-189: enforce the size on the best candidate and recompute the totals
finalSolution(graph, final, k) ==
  LET finalIds == enforceSizeLimit(graph, final.closure, k)
  IN  [final EXCEPT !.closure = finalIds,
                    !.totalWeight = sumWeights(graph, finalIds),
                    !.size = Len(finalIds)]

\* line 186: const final = best ?? maximumWeightClosure(graph)
finalCandidate(graph, best) ==
  IF best = <<>> THEN maximumWeightClosure(graph) ELSE best[1]

\* solveClosureBySize(graph, k) as a function of its arguments
solveClosureBySize(graph, k) ==
  IF returnsEmpty(graph, k) THEN EmptySolution
  ELSE IF returnsUnconstrained(graph, k) THEN maximumWeightClosure(graph)
  ELSE finalSolution(graph, finalCandidate(graph, searchBest(graph, k).best), k)

----------------------------------------------------------------------------
(* Inputs                                                                   *)

MaxChunks == 3

MaxEdges == 2

MaxK == 4

Weights == {-3, 0, 2}

\* chunk ids are 1 .. n in key order; edges may name any id of 1 .. MaxChunks,
\* so a graph of fewer chunks can have edges to ids that are no chunk
ChunkLists ==
  UNION {[1 .. n -> Weights] : n \in 0 .. MaxChunks}

EdgeLists ==
  UNION {[1 .. m -> (1 .. MaxChunks) \X (1 .. MaxChunks)] : m \in 0 .. MaxEdges}

MakeGraph(ws, es) ==
  [chunks |-> [j \in 1 .. Len(ws) |-> [id |-> j, weight |-> ws[j]]],
   edges  |-> [j \in 1 .. Len(es) |-> [from |-> es[j][1], to |-> es[j][2]]]]

GeneratedGraphs == {MakeGraph(ws, es) : ws \in ChunkLists, es \in EdgeLists}

\* the chain A -> B -> C with weights 10, 5, 1
ChainGraph == MakeGraph(<<10, 5, 1>>, <<<<1, 2>>, <<2, 3>>>>)

\* A -> B with weights 10, -3
PairGraph == MakeGraph(<<10, -3>>, <<<<1, 2>>>>)

\* the chain A -> B -> C -> D with weights 10, 5, 1, 1
LongChainGraph == MakeGraph(<<10, 5, 1, 1>>, <<<<1, 2>>, <<2, 3>>, <<3, 4>>>>)

\* a chunk of positive weight that depends on a chunk of negative weight, in
\* both key orders
PairGraphs ==
  {MakeGraph(<<a, b>>, <<<<1, 2>>>>) : a \in {1, 4, 10}, b \in {-3, -1}}
    \cup {MakeGraph(<<b, a>>, <<<<2, 1>>>>) : a \in {1, 4, 10}, b \in {-3, -1}}

\* two chunks of negative weight, without and with a dependency
NegativeGraphs ==
  {MakeGraph(ws, es) : ws \in [1 .. 2 -> {-5, -1}],
                       es \in {<<>>, <<<<1, 2>>>>, <<<<2, 1>>>>, <<<<1, 2>>, <<2, 1>>>>}}

\* the chain D -> C -> B -> A with weights 1, 1, 5, 10 for A, B, C, D: every
\* chunk depends on the chunk before it in key order
AscendingChainGraph == MakeGraph(<<1, 1, 5, 10>>, <<<<4, 3>>, <<3, 2>>, <<2, 1>>>>)

ExampleGraphs ==
  {ChainGraph, PairGraph, LongChainGraph, AscendingChainGraph} \cup PairGraphs \cup NegativeGraphs

Graphs == GeneratedGraphs \cup ExampleGraphs

\* graphs of MaxChunks chunks in which one dependency edge is listed twice, at
\* any two places of the edge list
DuplicateEdgeLists ==
  {es \in UNION {[1 .. m -> {p \in (1 .. MaxChunks) \X (1 .. MaxChunks) : p[1] # p[2]}] :
                   m \in 2 .. MaxEdges + 1} :
     \E i, j \in 1 .. Len(es) : i # j /\ es[i] = es[j]}

DuplicateGraphs ==
  {MakeGraph(ws, es) : ws \in [1 .. MaxChunks -> {-3, 2}], es \in DuplicateEdgeLists}

KValues == {Undefined} \cup {JsNum(n) : n \in -1 .. MaxK}

----------------------------------------------------------------------------
(* State: one solver call on one graph.  The other variables belong to the  *)
(* specifications further down (one run of Dinic.maxFlow step by step, two  *)
(* solver calls side by side, the ingest endpoint) and rest at their idle   *)
(* values here.                                                             *)

VARIABLES
  graph,       \* the input graph
  pc,          \* "ready" before the call, "done" after it returned
  call,        \* the entry point called
  k,           \* the k of solveClosureBySize
  result,      \* the solution returned
  builds,      \* the candidates built by buildClosure during the call, in order
  final,       \* the candidate handed to enforceSizeLimit, <<>> if none was
  keep,        \* the keep set of enforceSizeLimit when its removal loop ended
  fallback,    \* enforceSizeLimit returned from its top-k branch
  dinic,       \* a Dinic instance inside maxFlow: adj, level, it, flow and position
  calls,       \* the solver calls in progress, each with its own locals
  request,     \* the request of the ingest endpoint and what GitHub holds
  response     \* the response of the ingest endpoint

solverVars == <<graph, pc, call, k, result, builds, final, keep, fallback>>

vars == <<graph, pc, call, k, result, builds, final, keep, fallback,
          dinic, calls, request, response>>

\* no maxFlow is running
NoDinic == [at |-> "idle"]

\* no solver call is in progress
NoCalls == <<>>

\* the ingest endpoint has not been called
NoRequest == [at |-> "idle"]

NoResponse == [at |-> "idle"]

\* the variables of the other specifications, at rest
Idle ==
  /\ dinic = NoDinic
  /\ calls = NoCalls
  /\ request = NoRequest
  /\ response = NoResponse

Init ==
  /\ graph \in Graphs
  /\ pc = "ready"
  /\ call = "none"
  /\ k = Undefined
  /\ result = EmptySolution
  /\ builds = <<>>
  /\ final = <<>>
  /\ keep = <<>>
  /\ fallback = FALSE
  /\ Idle

\* MaximumWeightClosure that consumes graph.edges while it adds them to the network
MaximumWeightClosureDrainsEdges ==
  /\ pc = "ready"
  /\ \E sol \in {maximumWeightClosure(graph)} :
        /\ result' = sol
        /\ builds' = <<sol>>
  /\ graph' = [graph EXCEPT !.edges = <<>>]
  /\ call' = "maximumWeightClosure"
  /\ pc' = "done"
  /\ UNCHANGED <<k, final, keep, fallback>>
  /\ UNCHANGED <<dinic, calls, request, response>>

\* maximumWeightClosure(graph)
MaximumWeightClosure ==
  /\ pc = "ready"
  /\ \E sol \in {maximumWeightClosure(graph)} :
        /\ result' = sol
        /\ builds' = <<sol>>
  /\ call' = "maximumWeightClosure"
  /\ pc' = "done"
  /\ UNCHANGED <<graph, k, final, keep, fallback>>
  /\ UNCHANGED <<dinic, calls, request, response>>

\* solveClosureBySize(graph, kk), line 161: k <= 0 or no chunks
SolveEmpty(kk) ==
  /\ pc = "ready"
  /\ returnsEmpty(graph, kk)
  /\ result' = EmptySolution
  /\ k' = kk
  /\ call' = "solveClosureBySize"
  /\ pc' = "done"
  /\ UNCHANGED <<graph, builds, final, keep, fallback>>
  /\ UNCHANGED <<dinic, calls, request, response>>

\* solveClosureBySize(graph, kk), line 162: k >= chunks.length
SolveUnconstrained(kk) ==
  /\ pc = "ready"
  /\ ~returnsEmpty(graph, kk)
  /\ returnsUnconstrained(graph, kk)
  /\ \E sol \in {maximumWeightClosure(graph)} :
        /\ result' = sol
        /\ builds' = <<sol>>
  /\ k' = kk
  /\ call' = "solveClosureBySize"
  /\ pc' = "done"
  /\ UNCHANGED <<graph, final, keep, fallback>>
  /\ UNCHANGED <<dinic, calls, request, response>>

\* solveClosureBySize(graph, kk), lines 164-189: penalty search and size enforcer
SolveSearch(kk) ==
  /\ pc = "ready"
  /\ ~returnsEmpty(graph, kk)
  /\ ~returnsUnconstrained(graph, kk)
  /\ \E s \in {searchBest(graph, kk)} :
       \E fin \in {IF s.best = <<>> THEN maximumWeightClosure(graph) ELSE s.best[1]} :
         /\ builds' = s.candidates
         /\ final' = <<fin>>
         /\ keep' = IF JsLe(JsNum(Len(fin.closure)), kk) THEN fin.closure
                    ELSE keepAfterGreedy(graph, fin.closure, kk)
         /\ fallback' = takesFallback(graph, fin.closure, kk)
         /\ result' = finalSolution(graph, fin, kk)
  /\ k' = kk
  /\ call' = "solveClosureBySize"
  /\ pc' = "done"
  /\ UNCHANGED graph
  /\ UNCHANGED <<dinic, calls, request, response>>

Next ==
  \/ MaximumWeightClosure
  \/ \E kk \in KValues : SolveEmpty(kk)
  \/ \E kk \in KValues : SolveUnconstrained(kk)
  \/ \E kk \in KValues : SolveSearch(kk)

Spec == Init /\ [][Next]_vars

\* the same calls on the graphs with an edge listed twice
DuplicateInit ==
  /\ graph \in DuplicateGraphs
  /\ pc = "ready"
  /\ call = "none"
  /\ k = Undefined
  /\ result = EmptySolution
  /\ builds = <<>>
  /\ final = <<>>
  /\ keep = <<>>
  /\ fallback = FALSE
  /\ Idle

DuplicateSpec == DuplicateInit /\ [][Next]_vars

----------------------------------------------------------------------------
(* Dinic.maxFlow(source, sink) step by step, with source = 0 and sink = 1   *)
(* as buildClosure calls it: one step is one bfs() of the while condition   *)
(* or one dfs(source, Infinity) of the loop body.                           *)

\* penalties that leave a chunk of weight 2 a profit of 0, of 50 units (below
\* 1e-9), of 100 units (above it) and of -100 units
FlowPenalties ==
  {NumZero, NumOfInt(2), NumSub(NumOfInt(2), <<0, 50>>), NumSub(NumOfInt(2), <<0, 100>>),
   NumAdd(NumOfInt(2), <<0, 100>>)}

\* the networks buildClosure hands to maxFlow
BuiltNetworks ==
  {flowNetwork(MakeGraph(ws, es), p) :
     ws \in [1 .. MaxChunks -> Weights], es \in EdgeLists, p \in FlowPenalties}

FlowCapacities == {NumZero, <<0, 50>>, <<0, 100>>, NumOfInt(1), NumOfInt(2)}

\* networks built by addEdge alone: source -> a, source -> b, a -> b, a -> sink,
\* b -> sink with any capacities, where the first path found is source, a, b, sink
DiamondNetworks ==
  {addEdge(addEdge(addEdge(addEdge(addEdge(NewDinic(4), 0, 2, c[1]), 0, 3, c[2]),
                           2, 3, c[3]), 2, 1, c[4]), 3, 1, c[5]) :
     c \in [1 .. 5 -> FlowCapacities]}

FlowInit ==
  /\ dinic = [at |-> "new"]
  /\ graph = MakeGraph(<<>>, <<>>)
  /\ pc = "idle"
  /\ call = "none"
  /\ k = Undefined
  /\ result = EmptySolution
  /\ builds = <<>>
  /\ final = <<>>
  /\ keep = <<>>
  /\ fallback = FALSE
  /\ calls = NoCalls
  /\ request = NoRequest
  /\ response = NoResponse

\* new Dinic(size), the addEdge calls, and the entry of maxFlow (network keeps
\* the capacities the addEdge calls gave and builder tells whether buildClosure
\* made the instance, for the properties):
\* let flow = 0; const level = new Array(size); const it = new Array(size).
\* Both arrays are filled before they are read (level.fill(-1) in bfs, it.fill(0)
\* before the first dfs), so what they hold at first is never observed: they
\* start here as the fills leave them
FlowEnterOn(adj, builder) ==
  /\ dinic.at = "new"
  /\ dinic' = [adj |-> adj, network |-> adj, builder |-> builder,
               level |-> [v \in DOMAIN adj |-> -1],
               it |-> [v \in DOMAIN adj |-> 0], flow |-> NumZero,
               phases |-> 0, pushes |-> 0, at |-> "bfs"]
  /\ UNCHANGED <<solverVars, calls, request, response>>

\* maxFlow is entered on a network of buildClosure (line 145) or on a diamond
FlowEnter ==
  \/ \E adj \in BuiltNetworks : FlowEnterOn(adj, TRUE)
  \/ \E adj \in DiamondNetworks : FlowEnterOn(adj, FALSE)

\* FlowBfs with if (bfs()) for while (bfs()): maxFlow returns after one phase
FlowBfsOnePhase ==
  /\ dinic.at = "bfs"
  /\ \E level \in {bfs(dinic.adj, 0)} :
       dinic' = IF level[1] >= 0 /\ dinic.phases = 0
                  THEN [dinic EXCEPT !.level = level,
                                     !.it = [v \in DOMAIN dinic.adj |-> 0],
                                     !.phases = @ + 1, !.pushes = 0,
                                     !.at = "dfs"]
                  ELSE [dinic EXCEPT !.level = level, !.at = "done"]
  /\ UNCHANGED <<solverVars, calls, request, response>>

\* while (bfs()) { it.fill(0); ... } return flow;  phases counts the times
\* bfs() returned true, pushes the calls dfs(source, Infinity) of the phase
FlowBfs ==
  /\ dinic.at = "bfs"
  /\ \E level \in {bfs(dinic.adj, 0)} :
       dinic' = IF level[1] >= 0
                  THEN [dinic EXCEPT !.level = level,
                                     !.it = [v \in DOMAIN dinic.adj |-> 0],
                                     !.phases = @ + 1, !.pushes = 0,
                                     !.at = "dfs"]
                  ELSE [dinic EXCEPT !.level = level, !.at = "done"]
  /\ UNCHANGED <<solverVars, calls, request, response>>

\* pushed = dfs(source, Infinity); while (pushed > 0) { flow += pushed; pushed = dfs(...) }
FlowDfs ==
  /\ dinic.at = "dfs"
  /\ \E r \in {dfs(dinic.adj, dinic.it, dinic.level, 1, 0, PositiveInfinity)} :
       dinic' = IF NumLt(NumZero, r.tr)
                  THEN [dinic EXCEPT !.adj = r.adj, !.it = r.it, !.pushes = @ + 1,
                                     !.flow = NumAdd(@, r.tr)]
                  ELSE [dinic EXCEPT !.adj = r.adj, !.it = r.it, !.pushes = @ + 1,
                                     !.at = "bfs"]
  /\ UNCHANGED <<solverVars, calls, request, response>>

FlowNext == FlowEnter \/ FlowBfs \/ FlowDfs

\* maxFlow is synchronous code: once called it keeps running
FlowSpec == FlowInit /\ [][FlowNext]_vars /\ WF_vars(FlowNext)

----------------------------------------------------------------------------
(* A Dinic instance under construction: new Dinic(size) and then any        *)
(* sequence of addEdge(u, v, cap) calls, u = v included.                    *)

\* the number of nodes of the instance
BuildSize == 3

\* the largest number of addEdge calls followed
MaxAddEdges == 3

BuildCapacities == {NumOfInt(1), NumOfInt(2)}

\* new Dinic(BuildSize)
BuildInit ==
  /\ dinic = [at |-> "building", adj |-> NewDinic(BuildSize), added |-> 0]
  /\ graph = MakeGraph(<<>>, <<>>)
  /\ pc = "idle"
  /\ call = "none"
  /\ k = Undefined
  /\ result = EmptySolution
  /\ builds = <<>>
  /\ final = <<>>
  /\ keep = <<>>
  /\ fallback = FALSE
  /\ calls = NoCalls
  /\ request = NoRequest
  /\ response = NoResponse

\* addEdge(u, v, cap)
AddEdge(u, v, cap) ==
  /\ dinic.at = "building"
  /\ dinic.added < MaxAddEdges
  /\ dinic' = [dinic EXCEPT !.adj = addEdge(@, u, v, cap), !.added = @ + 1]
  /\ UNCHANGED <<solverVars, calls, request, response>>

BuildNext ==
  \E u, v \in 0 .. BuildSize - 1 : \E cap \in BuildCapacities : AddEdge(u, v, cap)

BuildSpec == BuildInit /\ [][BuildNext]_vars

----------------------------------------------------------------------------
(* Two solver calls side by side.  A call holds its arguments and its       *)
(* locals: the loop variables low, high, best and i of solveClosureBySize,  *)
(* the penalty and the Dinic instance (adj) of the buildClosure in progress *)
(* and the candidate it returned.  A step is the entry of the call, the     *)
(* construction of a flow network, maxFlow with the collection of the       *)
(* closure, the rest of a loop iteration, or the size enforcement with the  *)
(* return.  The steps of the two calls are taken in any order.              *)

Callers == {1, 2}

\* two chunks of the same weight, the second depending on the first, and a
\* chunk of negative weight
TieGraph == MakeGraph(<<2, 2, -3>>, <<<<2, 1>>>>)

CallArguments ==
  {[entry |-> "solveClosureBySize", graph |-> LongChainGraph, k |-> JsNum(2)],
   [entry |-> "solveClosureBySize", graph |-> TieGraph, k |-> JsNum(1)],
   [entry |-> "solveClosureBySize", graph |-> ChainGraph, k |-> JsNum(0)],
   [entry |-> "solveClosureBySize", graph |-> PairGraph, k |-> JsNum(3)],
   [entry |-> "maximumWeightClosure", graph |-> TieGraph, k |-> Undefined],
   [entry |-> "maximumWeightClosure", graph |-> MakeGraph(<<>>, <<>>), k |-> Undefined]}

NewCall(args) ==
  [entry |-> args.entry, graph |-> args.graph, k |-> args.k, at |-> "ready",
   mode |-> "plain", low |-> NumZero, high |-> NumZero, best |-> <<>>, i |-> 0,
   penalty |-> NumZero, adj |-> NewDinic(0), candidate |-> EmptySolution,
   result |-> EmptySolution]

CallsInit ==
  /\ calls \in [Callers -> {NewCall(args) : args \in CallArguments}]
  /\ graph = MakeGraph(<<>>, <<>>)
  /\ pc = "idle"
  /\ call = "none"
  /\ k = Undefined
  /\ result = EmptySolution
  /\ builds = <<>>
  /\ final = <<>>
  /\ keep = <<>>
  /\ fallback = FALSE
  /\ dinic = NoDinic
  /\ request = NoRequest
  /\ response = NoResponse

\* lines 145-154 of buildClosure: maxFlow, reachable, the closure and its totals
closureOfNetwork(g, adj, penalty) ==
  LET flowed  == maxFlow(adj, 0, 1)
      reach   == reachable(flowed.adj, 0)
      closure == collectClosure(g.chunks, reach, 1)
  IN  [adj |-> flowed.adj,
       solution |-> [closure |-> closure, totalWeight |-> sumWeights(g, closure),
                     size |-> Len(closure), penalty |-> penalty]]

\* the entry of the call: line 157, or lines 160-168 of solveClosureBySize
CallEnter(c) ==
  /\ calls[c].at = "ready"
  /\ \E me \in {calls[c]} :
       calls' = [calls EXCEPT ![c] =
         IF me.entry = "maximumWeightClosure" THEN [me EXCEPT !.at = "loop"]
         ELSE IF returnsEmpty(me.graph, me.k) THEN [me EXCEPT !.at = "done"]
         ELSE IF returnsUnconstrained(me.graph, me.k) THEN [me EXCEPT !.at = "loop"]
         ELSE [me EXCEPT !.mode = "search", !.at = "loop",
                         !.low = initialLow(me.graph.chunks),
                         !.high = initialHigh(me.graph.chunks)]]
  /\ UNCHANGED <<solverVars, dinic, request, response>>

\* lines 120-143 of buildClosure, called with penalty 0 (line 157) or with
\* the penalty (low + high) / 2 of the loop (lines 171-173)
CallNetwork(c) ==
  /\ calls[c].at = "loop"
  /\ calls[c].mode = "plain" \/ calls[c].i < SearchIterations
  /\ \E me \in {calls[c]} :
       \E penalty \in {IF me.mode = "plain" THEN NumZero
                         ELSE NumHalf(NumAdd(me.low, me.high))} :
         calls' = [calls EXCEPT ![c] =
           IF Len(me.graph.chunks) = 0
             THEN [me EXCEPT !.penalty = penalty, !.at = "built",
                             !.candidate = [closure |-> <<>>, totalWeight |-> 0, size |-> 0,
                                            penalty |-> penalty]]
             ELSE [me EXCEPT !.penalty = penalty, !.at = "flow",
                             !.adj = flowNetwork(me.graph, penalty)]]
  /\ UNCHANGED <<solverVars, dinic, request, response>>

\* CallFlow on a Dinic instance kept at module level: the network in it is the
\* one the other call built if that call is between its construction and its maxFlow
CallFlowShared(c) ==
  /\ calls[c].at = "flow"
  /\ \E o \in Callers \ {c} :
       \E r \in {closureOfNetwork(calls[c].graph,
                                   IF calls[o].at = "flow"
                                        /\ DOMAIN calls[o].adj = DOMAIN calls[c].adj
                                     THEN calls[o].adj ELSE calls[c].adj,
                                   calls[c].penalty)} :
         calls' = [calls EXCEPT ![c].adj = r.adj, ![c].candidate = r.solution,
                                ![c].at = "built"]
  /\ UNCHANGED <<solverVars, dinic, request, response>>

\* lines 145-154 of buildClosure on the call's own Dinic instance
CallFlow(c) ==
  /\ calls[c].at = "flow"
  /\ \E r \in {closureOfNetwork(calls[c].graph, calls[c].adj, calls[c].penalty)} :
       calls' = [calls EXCEPT ![c].adj = r.adj, ![c].candidate = r.solution,
                              ![c].at = "built"]
  /\ UNCHANGED <<solverVars, dinic, request, response>>

\* the loop variables after lines 174-183 on the candidate of me, with best
\* the best candidate so far
afterCompare(me, best) ==
  LET over == JsGt(JsNum(me.candidate.size), me.k)
  IN  [me EXCEPT !.best = IF replacesBest(best, me.candidate, me.k)
                            THEN <<me.candidate>> ELSE best,
                 !.low = IF over THEN me.penalty ELSE me.low,
                 !.high = IF over THEN me.high ELSE me.penalty,
                 !.i = me.i + 1, !.at = "loop"]

\* CallCompare in which the order of the ids returned depends on the history
\* of the process: they come reversed once another call has returned
CallCompareByHistory(c) ==
  /\ calls[c].at = "built"
  /\ \E me \in {calls[c]} : \E o \in Callers \ {c} :
       calls' = [calls EXCEPT ![c] =
         IF me.mode = "plain"
           THEN [me EXCEPT !.at = "done",
                           !.result = IF calls[o].at = "done"
                                        THEN [me.candidate EXCEPT !.closure =
                                                [j \in 1 .. Len(@) |-> @[Len(@) + 1 - j]]]
                                        ELSE me.candidate]
           ELSE afterCompare(me, me.best)]
  /\ UNCHANGED <<solverVars, dinic, request, response>>

\* the return of maximumWeightClosure (lines 157, 162), or lines 174-183 of the loop
CallCompare(c) ==
  /\ calls[c].at = "built"
  /\ \E me \in {calls[c]} :
       calls' = [calls EXCEPT ![c] =
         IF me.mode = "plain" THEN [me EXCEPT !.result = me.candidate, !.at = "done"]
         ELSE afterCompare(me, me.best)]
  /\ UNCHANGED <<solverVars, dinic, request, response>>

\* lines 186-189: the size enforcer on the best candidate, and the return
CallEnforce(c) ==
  /\ calls[c].at = "loop"
  /\ calls[c].mode = "search" /\ ~(calls[c].i < SearchIterations)
  /\ \E me \in {calls[c]} :
       \E fin \in {IF me.best = <<>> THEN maximumWeightClosure(me.graph) ELSE me.best[1]} :
         calls' = [calls EXCEPT ![c] =
                    [me EXCEPT !.result = finalSolution(me.graph, fin, me.k), !.at = "done"]]
  /\ UNCHANGED <<solverVars, dinic, request, response>>

CallsNext ==
  \E c \in Callers :
    \/ CallEnter(c)
    \/ CallNetwork(c)
    \/ CallFlow(c)
    \/ CallCompare(c)
    \/ CallEnforce(c)

CallsSpec == CallsInit /\ [][CallsNext]_vars

----------------------------------------------------------------------------
(* GET /api/ingest (app/api/ingest/route.ts).  The request holds the query  *)
(* parameters repo, solve and size and what the two GitHub fetches of the   *)
(* handler return: ok is FALSE for a response that is not ok, else data is  *)
(* the list of the open issues or pull requests.  null is <<>>, a value v   *)
(* is <<v>>.                                                                *)

\* an issue as the handler reads it: id, comments, reactions?.total_count
IssueItems ==
  {[id |-> i, comments |-> c, reactions |-> r] :
     i \in 1 .. 2, c \in {0, 3}, r \in {Undefined, JsNum(1)}}

\* a pull request as the handler reads it: id, comments, review_comments
PullItems ==
  {[id |-> i, comments |-> c, review_comments |-> 0] : i \in 1 .. 2, c \in {0, 3}}

IssueFetches ==
  {[ok |-> FALSE, data |-> <<>>]}
    \cup {[ok |-> TRUE, data |-> d] : d \in UNION {[1 .. n -> IssueItems] : n \in 0 .. 2}}

PullFetches ==
  {[ok |-> FALSE, data |-> <<>>]}
    \cup {[ok |-> TRUE, data |-> d] : d \in UNION {[1 .. n -> PullItems] : n \in 0 .. 1}}

\* the size parameter of the query: absent, or a number from 1 to MaxK
SizeParameters == {Undefined} \cup {JsNum(n) : n \in 1 .. MaxK}

Requests ==
  [at : {"received"}, repo : BOOLEAN, solve : BOOLEAN, size : SizeParameters,
   issues : IssueFetches, pulls : PullFetches]

\* issueToChunk: id `issue-${issue.id}`,
\* weight (issue.comments ?? 0) + (issue.reactions?.total_count ?? 0) + 5
issueToChunk(issue) ==
  [id |-> <<"issue", issue.id>>,
   weight |-> issue.comments + (IF issue.reactions = Undefined THEN 0 ELSE issue.reactions[1]) + 5]

\* prToChunk: id `pr-${pr.id}`, weight 5 + (pr.comments ?? 0) + (pr.review_comments ?? 0)
prToChunk(pr) ==
  [id |-> <<"pr", pr.id>>, weight |-> 5 + pr.comments + pr.review_comments]

\* acc[chunk.id] = chunk: a key that is there keeps its place and takes the new chunk
setChunk(chunks, chunk) ==
  IF \E j \in 1 .. Len(chunks) : chunks[j].id = chunk.id
    THEN [j \in 1 .. Len(chunks) |-> IF chunks[j].id = chunk.id THEN chunk ELSE chunks[j]]
    ELSE Append(chunks, chunk)

RECURSIVE chunksFromIssues(_, _, _)
chunksFromIssues(issues, acc, j) ==
  IF j > Len(issues) THEN acc
  ELSE chunksFromIssues(issues, setChunk(acc, issueToChunk(issues[j])), j + 1)

buildGraphFromIssues(issues) ==
  [chunks |-> chunksFromIssues(issues, <<>>, 1), edges |-> <<>>]

RECURSIVE chunksFromPRs(_, _, _)
chunksFromPRs(prs, acc, j) ==
  IF j > Len(prs) THEN acc
  ELSE chunksFromPRs(prs, setChunk(acc, prToChunk(prs[j])), j + 1)

buildGraphFromPRs(prs) ==
  [chunks |-> chunksFromPRs(prs, <<>>, 1), edges |-> <<>>]

IngestInit ==
  /\ request \in Requests
  /\ response = NoResponse
  /\ graph = MakeGraph(<<>>, <<>>)
  /\ pc = "idle"
  /\ call = "none"
  /\ k = Undefined
  /\ result = EmptySolution
  /\ builds = <<>>
  /\ final = <<>>
  /\ keep = <<>>
  /\ fallback = FALSE
  /\ dinic = NoDinic
  /\ calls = NoCalls

\* lines 100-105: no repo parameter
GetNoRepo ==
  /\ request.at = "received" /\ response = NoResponse
  /\ ~request.repo
  /\ response' = [at |-> "sent", status |-> 400, kind |-> "error"]
  /\ UNCHANGED <<solverVars, dinic, calls, request>>

\* lines 107-118: the fetch of the issues is not ok
GetIssuesError ==
  /\ request.at = "received" /\ response = NoResponse
  /\ request.repo
  /\ ~request.issues.ok
  /\ response' = [at |-> "sent", status |-> 200, kind |-> "error"]
  /\ UNCHANGED <<solverVars, dinic, calls, request>>

\* lines 120-125: issues were found
GetIssues ==
  /\ request.at = "received" /\ response = NoResponse
  /\ request.repo
  /\ request.issues.ok /\ Len(request.issues.data) > 0
  /\ \E g \in {buildGraphFromIssues(request.issues.data)} :
       response' = [at |-> "sent", status |-> 200, kind |-> "issues",
                    count |-> Len(request.issues.data), graph |-> g,
                    closure |-> IF request.solve THEN <<solveClosureBySize(g, JsNum(0))>>
                                ELSE <<>>]
  /\ UNCHANGED <<solverVars, dinic, calls, request>>

\* lines 127-138: no issues, and the fetch of the pull requests is not ok
GetPullsError ==
  /\ request.at = "received" /\ response = NoResponse
  /\ request.repo
  /\ request.issues.ok /\ Len(request.issues.data) = 0
  /\ ~request.pulls.ok
  /\ response' = [at |-> "sent", status |-> 200, kind |-> "error"]
  /\ UNCHANGED <<solverVars, dinic, calls, request>>

\* lines 140-152: no issues, pull requests were found
GetPulls ==
  /\ request.at = "received" /\ response = NoResponse
  /\ request.repo
  /\ request.issues.ok /\ Len(request.issues.data) = 0
  /\ request.pulls.ok /\ Len(request.pulls.data) > 0
  /\ \E g \in {buildGraphFromPRs(request.pulls.data)} :
       response' = [at |-> "sent", status |-> 200, kind |-> "pulls",
                    count |-> Len(request.pulls.data), graph |-> g,
                    closure |-> IF request.solve THEN <<solveClosureBySize(g, JsNum(0))>>
                                ELSE <<>>]
  /\ UNCHANGED <<solverVars, dinic, calls, request>>

\* lines 154-160: neither issues nor pull requests
GetNothing ==
  /\ request.at = "received" /\ response = NoResponse
  /\ request.repo
  /\ request.issues.ok /\ Len(request.issues.data) = 0
  /\ request.pulls.ok /\ Len(request.pulls.data) = 0
  /\ response' = [at |-> "sent", status |-> 200, kind |-> "nothing", count |-> 0,
                   graph |-> MakeGraph(<<>>, <<>>),
                   closure |-> IF request.solve THEN <<EmptySolution>> ELSE <<>>]
  /\ UNCHANGED <<solverVars, dinic, calls, request>>

IngestNext ==
  \/ GetNoRepo
  \/ GetIssuesError
  \/ GetIssues
  \/ GetPullsError
  \/ GetPulls
  \/ GetNothing

IngestSpec == IngestInit /\ [][IngestNext]_vars

----------------------------------------------------------------------------
(* Vocabulary of the properties                                             *)

ChunkIds(g) == {g.chunks[j].id : j \in 1 .. Len(g.chunks)}

\* every edge joins two chunks of the graph
EdgesJoinChunks(g) ==
  \A j \in 1 .. Len(g.edges) : g.edges[j].from \in ChunkIds(g) /\ g.edges[j].to \in ChunkIds(g)

\* the set S of ids holds the dependencies of its members
IsClosed(g, S) ==
  \A j \in 1 .. Len(g.edges) : g.edges[j].from \in S => g.edges[j].to \in S

ClosedSubsets(g) == {S \in SUBSET ChunkIds(g) : IsClosed(g, S)}

RECURSIVE SetWeight(_, _)
SetWeight(g, S) ==
  IF S = {} THEN 0
  ELSE LET x == CHOOSE y \in S : TRUE
       IN  (CHOOSE w \in {g.chunks[j].weight : j \in {i \in 1 .. Len(g.chunks) : g.chunks[i].id = x}} : TRUE)
           + SetWeight(g, S \ {x})

\* the graph without the edges that name an id that is no chunk
WithoutDanglingEdges(g) ==
  [g EXCEPT !.edges = SelectSeq(g.edges,
                                LAMBDA e : e.from \in ChunkIds(g) /\ e.to \in ChunkIds(g))]

\* the graph without its j-th edge
WithoutEdge(g, j) ==
  [g EXCEPT !.edges = SubSeq(g.edges, 1, j - 1) \o SubSeq(g.edges, j + 1, Len(g.edges))]

MaxDone == pc = "done" /\ call = "maximumWeightClosure"

SizeDone == pc = "done" /\ call = "solveClosureBySize"

----------------------------------------------------------------------------
(* Properties                                                               *)

C1_WitnessPulled ==
  /\ MaxDone /\ EdgesJoinChunks(graph)
  /\ result.size = 3
  /\ \E id \in SeqToSet(result.closure) : weightOf(graph, id) < 0

\* C2: when every edge joins existing chunks, every closure built by
\* buildClosure, with penalty 0 or with a penalty of the search, is
\* dependency-closed
C2_BuiltClosuresClosed ==
  (pc = "done" /\ EdgesJoinChunks(graph)) =>
    \A j \in 1 .. Len(builds) : IsClosed(graph, SeqToSet(builds[j].closure))

\* a search whose candidates include a closure that holds a dependent with its
\* dependency and leaves another chunk out, at a penalty other than 0
C2_Witness ==
  /\ SizeDone /\ EdgesJoinChunks(graph) /\ Len(builds) = SearchIterations
  /\ \E j \in 1 .. Len(builds) :
       /\ builds[j].penalty # NumZero
       /\ builds[j].size < Len(graph.chunks)
       /\ \E e \in 1 .. Len(graph.edges) :
            /\ graph.edges[e].from # graph.edges[e].to
            /\ graph.edges[e].from \in SeqToSet(builds[j].closure)

\* C3: for every integer k > 0, solveClosureBySize returns a solution of size <= k
C3_SizeAtMostK ==
  (SizeDone /\ JsGt(k, JsNum(0))) =>
    result.size <= k[1] /\ Len(result.closure) <= k[1]

\* the three paths: k >= number of chunks, greedy trimming, top-k fallback
C3_Witness ==
  /\ SizeDone /\ JsGt(k, JsNum(0))
  /\ fallback
  /\ result.size = k[1]

C3_WitnessGreedy ==
  /\ SizeDone /\ JsGt(k, JsNum(0))
  /\ ~fallback /\ final # <<>> /\ final[1].size > k[1]
  /\ result.size = k[1]

\* C4: when every edge joins existing chunks, 0 < k < number of chunks and the
\* size enforcer does not take its top-k fallback, the closure returned by
\* solveClosureBySize is dependency-closed
C4_ClosedWithoutFallback ==
  (SizeDone /\ EdgesJoinChunks(graph) /\ JsGt(k, JsNum(0))
     /\ JsLt(k, JsNum(Len(graph.chunks))) /\ ~fallback) =>
    IsClosed(graph, SeqToSet(result.closure))

\* the greedy pass removed members of a best candidate that has dependency edges inside
C4_Witness ==
  /\ SizeDone /\ EdgesJoinChunks(graph) /\ JsGt(k, JsNum(0))
  /\ JsLt(k, JsNum(Len(graph.chunks))) /\ ~fallback
  /\ final # <<>> /\ final[1].size > k[1]
  /\ result.size > 0
  /\ \E e \in 1 .. Len(graph.edges) :
       /\ graph.edges[e].from # graph.edges[e].to
       /\ graph.edges[e].from \in SeqToSet(final[1].closure)

\* C5: when every edge joins existing chunks, the closure returned by
\* solveClosureBySize is dependency-closed, for every k
C5_ClosureIntact ==
  (SizeDone /\ EdgesJoinChunks(graph)) => IsClosed(graph, SeqToSet(result.closure))

\* C6: on the chain A -> B -> C with weights 10, 5, 1, solveClosureBySize(graph, 1)
\* returns the closure {C} with totalWeight 1 and size 1
C6_ChainSelectsC ==
  (SizeDone /\ graph = ChainGraph /\ k = JsNum(1)) =>
    result.closure = <<3>> /\ result.totalWeight = 1 /\ result.size = 1

\* C7: on a graph without edges maximumWeightClosure returns exactly the ids
\* of the chunks of weight >= 0
C7_NoEdgesNonNegative ==
  (MaxDone /\ graph.edges = <<>>) =>
    SeqToSet(result.closure) =
      {graph.chunks[j].id : j \in {i \in 1 .. Len(graph.chunks) : graph.chunks[i].weight >= 0}}

\* C8: for k >= number of chunks >= 1, solveClosureBySize returns the closure,
\* totalWeight and size of maximumWeightClosure
C8_LargeKUnconstrained ==
  (SizeDone /\ Len(graph.chunks) >= 1 /\ JsGe(k, JsNum(Len(graph.chunks)))) =>
    /\ result.closure = maximumWeightClosure(graph).closure
    /\ result.totalWeight = maximumWeightClosure(graph).totalWeight
    /\ result.size = maximumWeightClosure(graph).size

\* k equal to the number of chunks, and a maximum closure that leaves a chunk out
C8_Witness ==
  /\ SizeDone /\ Len(graph.chunks) >= 2 /\ k = JsNum(Len(graph.chunks))
  /\ result.size > 0 /\ result.size < Len(graph.chunks)

\* C9: for k <= 0 or a graph without chunks, solveClosureBySize returns the
\* empty solution and builds no closure
C9_EmptySolution ==
  (SizeDone /\ (JsLe(k, JsNum(0)) \/ Len(graph.chunks) = 0)) =>
    /\ result = [closure |-> <<>>, totalWeight |-> 0, size |-> 0]
    /\ builds = <<>>

\* k = 0 on a graph whose maximum-weight closure is not empty
C9_Witness ==
  /\ SizeDone /\ k = JsNum(0)
  /\ \E j \in 1 .. Len(graph.chunks) : graph.chunks[j].weight > 0
  /\ result.size = 0

\* no chunks and a positive k
C9_WitnessNoChunks ==
  /\ SizeDone /\ JsGt(k, JsNum(0)) /\ Len(graph.chunks) = 0
  /\ result.size = 0

\* C10: for a missing k and a graph with chunks, solveClosureBySize returns
\* the empty solution
C10_MissingKEmpty ==
  (SizeDone /\ k = Undefined /\ Len(graph.chunks) > 0) =>
    result.closure = <<>> /\ result.totalWeight = 0 /\ result.size = 0

C12_AllNegativeEmpty ==
  (MaxDone /\ \A j \in 1 .. Len(graph.chunks) : graph.chunks[j].weight < 0) =>
    result.closure = <<>> /\ result.totalWeight = 0 /\ result.size = 0

\* two chunks of different negative weights, the lighter depending on the other
C12_Witness ==
  /\ MaxDone /\ Len(graph.chunks) = 2
  /\ graph.chunks[1].weight = -5 /\ graph.chunks[2].weight = -1
  /\ graph.edges = <<[from |-> 2, to |-> 1]>>
  /\ result.closure = <<>>

\* C13: every returned solution lists ids of chunks of the graph without
\* duplicates, its size is the number of ids listed and its totalWeight is the
\* sum of the original weights of those ids, also after the size enforcer
C13_SolutionTotals ==
  pc = "done" =>
    /\ Cardinality(SeqToSet(result.closure)) = Len(result.closure)
    /\ SeqToSet(result.closure) \subseteq ChunkIds(graph)
    /\ result.size = Len(result.closure)
    /\ result.totalWeight = SetWeight(graph, SeqToSet(result.closure))

\* the size enforcer trimmed a best candidate found at a penalty other than 0
\* and the weight of what is left differs from the candidate's
C13_Witness ==
  /\ SizeDone /\ final # <<>>
  /\ final[1].penalty # NumZero
  /\ final[1].size > result.size /\ result.size > 0
  /\ final[1].totalWeight # result.totalWeight

\* C14: a call on a graph with edges that name an id that is no chunk returns
\* the solution of the same call on the graph without those edges
C14_DanglingEdgesDropped ==
  (pc = "done" /\ ~EdgesJoinChunks(graph)) =>
    result = IF call = "maximumWeightClosure"
               THEN maximumWeightClosure(WithoutDanglingEdges(graph))
               ELSE solveClosureBySize(WithoutDanglingEdges(graph), k)

\* the size enforcer trimmed a closure one of whose members is the target of
\* an edge from an id that is no chunk
C14_Witness ==
  /\ SizeDone /\ final # <<>> /\ JsGt(JsNum(final[1].size), k)
  /\ result.size > 0
  /\ \E e \in 1 .. Len(graph.edges) :
       /\ graph.edges[e].from \notin ChunkIds(graph)
       /\ graph.edges[e].to \in SeqToSet(final[1].closure)

\* a chunk in the closure of maximumWeightClosure has an edge to an id that is
\* no chunk
C14_WitnessNetwork ==
  /\ MaxDone /\ result.size > 0
  /\ \E e \in 1 .. Len(graph.edges) :
       /\ graph.edges[e].to \notin ChunkIds(graph)
       /\ graph.edges[e].from \in SeqToSet(result.closure)

C18_GraphNeverMutated == [][graph' = graph]_vars

\* a call returned through the sorts of the size enforcer, on a graph with
\* edges whose chunks are not in ascending order of weight
C18_Witness ==
  /\ SizeDone /\ fallback
  /\ graph.edges # <<>>
  /\ \E i, j \in 1 .. Len(graph.chunks) : i < j /\ graph.chunks[i].weight > graph.chunks[j].weight

\* the number of residual edges of a network
RECURSIVE EdgeCountFrom(_, _)
EdgeCountFrom(adj, v) ==
  IF v \notin DOMAIN adj THEN 0 ELSE Len(adj[v]) + EdgeCountFrom(adj, v + 1)

EdgeCount(adj) == EdgeCountFrom(adj, 0)

\* C16: Dinic.maxFlow terminates: a run is at a step that can be taken (bfs or
\* dfs) until it has returned, the phase loop sees bfs() reach the sink fewer
\* times than the network has nodes, and a phase makes at most one call of
\* dfs(source, Infinity) per residual edge and one more
C16_MaxFlowTerminates ==
  /\ dinic.at \in {"new", "bfs", "dfs", "done"}
  /\ dinic.at # "new" =>
       /\ dinic.phases < Cardinality(DOMAIN dinic.adj)
       /\ dinic.pushes <= EdgeCount(dinic.adj) + 1

\* a run that returned after two phases, with the flow the whole-call maxFlow
\* computes and a residual capacity between 0 and 1e-9 left in the network
C16_Witness ==
  /\ dinic.at = "done" /\ dinic.phases = 2
  /\ NumLt(NumZero, dinic.flow)
  /\ \E v \in DOMAIN dinic.adj : \E j \in 1 .. Len(dinic.adj[v]) :
       dinic.adj[v][j].cap # NumZero /\ ~GtEps(dinic.adj[v][j].cap)

\* the solution the call returns when it runs alone
AloneResult(c) ==
  IF calls[c].entry = "maximumWeightClosure" THEN maximumWeightClosure(calls[c].graph)
  ELSE solveClosureBySize(calls[c].graph, calls[c].k)

C19_Reentrant ==
  \A c \in Callers : calls[c].at = "done" => calls[c].result = AloneResult(c)

\* a call on one graph returned its trimmed closure while a call on another
\* graph is in the middle of its search, between the construction of a
\* network and maxFlow
C19_Witness ==
  \E c, o \in Callers :
    /\ calls[c].at = "done" /\ calls[c].mode = "search"
    /\ calls[c].result.size > 0
    /\ calls[o].graph # calls[c].graph
    /\ calls[o].at = "flow" /\ calls[o].i > 0 /\ calls[o].i < SearchIterations - 1

\* C20: when issues or pull requests are found, solving is enabled and the
\* request has a size parameter, the closure of the response is
\* solveClosureBySize of the built graph with k the size parameter, and it is
\* not empty
C20_IngestSolvesForSize ==
  (/\ response.at = "sent" /\ response.kind \in {"issues", "pulls"}
   /\ request.solve /\ request.size # Undefined) =>
    /\ response.closure = <<solveClosureBySize(response.graph, request.size)>>
    /\ response.closure[1].size >= 1

\* penalties at which the profit of a chunk of weight 0 or 2, or of a pair of
\* chunks of weights 2 and -3 or 2 and 0, is 0, and penalties 50 units (below
\* 1e-9) and 100 units (above it) to either side of each
PenaltyGrid ==
  {NumAdd(base, off) :
     base \in {NumHalf(NumOfInt(-1)), NumZero, NumOfInt(1), NumOfInt(2)},
     off \in {NumNeg(<<0, 100>>), NumNeg(<<0, 50>>), NumZero, <<0, 50>>, <<0, 100>>}}

C22_BestCandidate ==
  (SizeDone /\ JsGt(k, JsNum(0)) /\ JsLt(k, JsNum(Len(graph.chunks)))) =>
    /\ Len(builds) = 36
    /\ final # <<>>
    /\ \E j \in 1 .. Len(builds) : builds[j] = final[1]
    /\ \A j \in 1 .. Len(builds) :
         /\ IntAbs(final[1].size - k[1]) <= IntAbs(builds[j].size - k[1])
         /\ IntAbs(final[1].size - k[1]) = IntAbs(builds[j].size - k[1]) =>
              final[1].totalWeight >= builds[j].totalWeight

\* an earlier candidate is as near to k as the one handed on, which replaced
\* it for its larger totalWeight
C22_Witness ==
  /\ SizeDone /\ JsGt(k, JsNum(0)) /\ JsLt(k, JsNum(Len(graph.chunks)))
  /\ final # <<>>
  /\ \E i, j \in 1 .. Len(builds) :
       /\ i < j /\ builds[j] = final[1]
       /\ \A h \in 1 .. j - 1 : builds[h] # final[1]
       /\ IntAbs(builds[i].size - k[1]) = IntAbs(final[1].size - k[1])
       /\ builds[i].totalWeight < final[1].totalWeight

\* the nodes reached from the nodes of S over residual edges of capacity > 0
RECURSIVE PositiveReach(_, _)
PositiveReach(adj, S) ==
  LET T == S \cup UNION {{adj[v][j].to :
                            j \in {i \in 1 .. Len(adj[v]) : NumLt(NumZero, adj[v][i].cap)}} :
                          v \in S}
  IN  IF T = S THEN S ELSE PositiveReach(adj, T)

\* the nodes Dinic.reachable(source) marks
ReachedSet(adj) == {v \in DOMAIN adj : reachable(adj, 0)[v]}

\* the sum of the capacities of the edges <<v, j>> of E
RECURSIVE SumCaps(_, _)
SumCaps(network, E) ==
  IF E = {} THEN NumZero
  ELSE LET e == CHOOSE x \in E : TRUE
       IN  NumAdd(network[e[1]][e[2]].cap, SumCaps(network, E \ {e}))

\* the total capacity of the edges that leave the set S of nodes
CutCapacity(network, S) ==
  SumCaps(network, UNION {{<<v, j>> : j \in {i \in 1 .. Len(network[v]) :
                                                network[v][i].to \notin S}} : v \in S})

\* the least capacity of a cut with the source 0 inside and the sink 1 outside
MinCut(network) ==
  LET caps == {CutCapacity(network, S \cup {0}) : S \in SUBSET (DOMAIN network \ {0, 1})}
  IN  CHOOSE c \in caps : \A d \in caps : NumLe(c, d)

\* some residual capacity is above 0 and not above 1e-9
HasTinyResidual(adj) ==
  \E v \in DOMAIN adj : \E j \in 1 .. Len(adj[v]) :
    NumLt(NumZero, adj[v][j].cap) /\ ~GtEps(adj[v][j].cap)

\* C23 as claimed: when maxFlow returns, the sink is not reachable from the
\* source over residual edges of positive capacity, and the flow returned is
\* the total original capacity of the edges leaving reachable(source), which
\* is the minimum over all cuts between source and sink
C23_MaxFlowMinCut ==
  dinic.at = "done" =>
    /\ 1 \notin PositiveReach(dinic.adj, {0})
    /\ dinic.flow = CutCapacity(dinic.network, ReachedSet(dinic.adj))
    /\ dinic.flow = MinCut(dinic.network)

\* C23 amended: when maxFlow returns, the sink is not reachable from the
\* source over residual edges of capacity > 1e-9; if no residual capacity is
\* above 0 and at most 1e-9, the flow returned is the total original capacity
\* of the edges leaving reachable(source), which is the minimum over all cuts
C23_MaxFlowMinCutAboveEps ==
  dinic.at = "done" =>
    /\ 1 \notin ReachedSet(dinic.adj)
    /\ ~HasTinyResidual(dinic.adj) =>
         /\ 1 \notin PositiveReach(dinic.adj, {0})
         /\ dinic.flow = CutCapacity(dinic.network, ReachedSet(dinic.adj))
         /\ dinic.flow = MinCut(dinic.network)

\* a run of two phases returned a flow above 0, left no residual capacity
\* between 0 and 1e-9, and cut the network between two nodes that are neither
\* source nor sink
C23_Witness ==
  /\ dinic.at = "done" /\ dinic.phases = 2
  /\ NumLt(NumZero, dinic.flow)
  /\ ~HasTinyResidual(dinic.adj)
  /\ \E v \in ReachedSet(dinic.adj) \ {0} : \E j \in 1 .. Len(dinic.network[v]) :
       /\ dinic.network[v][j].to \notin ReachedSet(dinic.adj) \cup {1}
       /\ NumLt(NumZero, dinic.network[v][j].cap)

\* the place <<node, index>> of the edge that one addEdge call appended
\* together with the edge at index j of node v: the edge e.rev of node e.to
\* or, when addEdge(u, u, cap) appended both to the same list, the neighbour
EdgePartner(adj, v, j) ==
  LET e == adj[v][j]
  IN  IF e.to # v THEN <<e.to, e.rev + 1>>
      ELSE IF e.rev + 1 = j THEN <<v, j + 1>> ELSE <<v, e.rev + 1>>

EdgePlaces(adj) == UNION {{<<v, j>> : j \in 1 .. Len(adj[v])} : v \in DOMAIN adj}

\* no residual capacity is negative and every pair of edges holds, in sum,
\* the capacity addEdge gave to its forward edge
ResidualsConserved(d) ==
  \A x \in EdgePlaces(d.adj) :
    LET y == EdgePartner(d.network, x[1], x[2])
    IN  /\ NumLe(NumZero, d.adj[x[1]][x[2]].cap)
        /\ d.network[x[1]][x[2]].cap = NumZero \/ d.network[y[1]][y[2]].cap = NumZero
        /\ NumAdd(d.adj[x[1]][x[2]].cap, d.adj[y[1]][y[2]].cap)
             = NumAdd(d.network[x[1]][x[2]].cap, d.network[y[1]][y[2]].cap)

\* the edges of E lead from node v to the sink, each used once
RECURSIVE IsPathToSink(_, _, _)
IsPathToSink(adj, E, v) ==
  IF v = 1 THEN E = {}
  ELSE \E x \in E :
         /\ x[1] = v
         /\ \A y \in E : y[1] = v => y = x
         /\ IsPathToSink(adj, E \ {x}, adj[x[1]][x[2]].to)

\* from residual network adj to residual network next, the capacity of every
\* edge of one path from source to sink fell by tr, the capacity of the
\* partner of each rose by tr, and nothing else changed
AugmentsOnePath(network, adj, next, tr) ==
  LET lowered == {x \in EdgePlaces(adj) :
                    next[x[1]][x[2]].cap = NumSub(adj[x[1]][x[2]].cap, tr)}
      raised  == {EdgePartner(network, x[1], x[2]) : x \in lowered}
  IN  /\ DOMAIN next = DOMAIN adj
      /\ \A v \in DOMAIN adj : Len(next[v]) = Len(adj[v])
      /\ IsPathToSink(adj, lowered, 0)
      /\ \A x \in EdgePlaces(adj) :
           /\ next[x[1]][x[2]].to = adj[x[1]][x[2]].to
           /\ next[x[1]][x[2]].rev = adj[x[1]][x[2]].rev
           /\ x \in raised => next[x[1]][x[2]].cap = NumAdd(adj[x[1]][x[2]].cap, tr)
           /\ x \notin lowered \cup raised => next[x[1]][x[2]].cap = adj[x[1]][x[2]].cap

\* C24: after every step of maxFlow every residual capacity is >= 0 and the
\* two capacities of every forward/reverse pair add up to the capacity given
\* to addEdge; a dfs(source, Infinity) that returns tr > 0 lowers the forward
\* capacity and raises the paired reverse capacity by tr on every edge of one
\* path from source to sink and changes nothing else, and one that returns 0
\* changes no capacity
C24_ResidualConservation ==
  [][/\ dinic'.at # "new" => ResidualsConserved(dinic')
     /\ dinic.at = "dfs" =>
          IF dinic'.flow = dinic.flow THEN dinic'.adj = dinic.adj
          ELSE /\ NumLt(dinic.flow, dinic'.flow)
               /\ AugmentsOnePath(dinic.network, dinic.adj, dinic'.adj,
                                   NumSub(dinic'.flow, dinic.flow))]_vars

\* a run of two phases returned and left an edge that carries part of its
\* capacity: both the edge and its partner have residual capacity
C24_Witness ==
  /\ dinic.at = "done" /\ dinic.phases = 2
  /\ \E x \in EdgePlaces(dinic.adj) :
       LET y == EdgePartner(dinic.network, x[1], x[2])
       IN  /\ GtEps(dinic.adj[x[1]][x[2]].cap) /\ GtEps(dinic.adj[y[1]][y[2]].cap)
           /\ x[1] \notin {0, 1} /\ y[1] \notin {0, 1}

\* C25: after any sequence of addEdge calls, every edge e = adj[u][i] has at
\* index e.rev of node e.to an edge that leads back to u and whose rev is i,
\* also when an edge was added from a node to itself
C25_EdgePairing ==
  dinic.at = "building" =>
    \A u \in DOMAIN dinic.adj : \A i \in 1 .. Len(dinic.adj[u]) :
      LET e == dinic.adj[u][i]
      IN  /\ e.rev + 1 \in 1 .. Len(dinic.adj[e.to])
          /\ dinic.adj[e.to][e.rev + 1].to = u
          /\ dinic.adj[e.to][e.rev + 1].rev = i - 1

\* the edges between the source or the sink and a chunk node
ProfitEdgePlaces(network) ==
  {x \in EdgePlaces(network) : x[1] \in {0, 1} \/ network[x[1]][x[2]].to \in {0, 1}}

\* the forward dependency edges: the edges between chunk nodes that were given
\* a capacity
DependencyEdgePlaces(network) ==
  {x \in EdgePlaces(network) \ ProfitEdgePlaces(network) :
     network[x[1]][x[2]].cap # NumZero}

\* C26: in every state of maxFlow on a network of buildClosure, every forward
\* dependency edge was given INF = (sum of |weight - penalty| over the chunks)
\* + 1, the flow is at most INF - 1, and the residual capacity of every
\* forward dependency edge is above 0
C26_DependencyEdgesNeverCut ==
  (dinic.at \in {"bfs", "dfs", "done"} /\ dinic.builder) =>
    LET INF == NumAdd(SumCaps(dinic.network, ProfitEdgePlaces(dinic.network)), NumOfInt(1))
    IN  /\ NumLe(dinic.flow, NumSub(INF, NumOfInt(1)))
        /\ \A x \in DependencyEdgePlaces(dinic.network) :
             /\ dinic.network[x[1]][x[2]].cap = INF
             /\ NumLt(NumZero, dinic.adj[x[1]][x[2]].cap)

\* maxFlow on a network of buildClosure returned after it sent flow through
\* a dependency edge between two chunks
C26_Witness ==
  /\ dinic.at = "done" /\ dinic.builder
  /\ NumLt(NumZero, dinic.flow)
  /\ \E x \in DependencyEdgePlaces(dinic.network) :
       /\ dinic.network[x[1]][x[2]].to # x[1]
       /\ NumLt(dinic.adj[x[1]][x[2]].cap, dinic.network[x[1]][x[2]].cap)

\* C27: when the removal pass of the size enforcer ends with the keep set
\* still larger than k and the top-k fallback is taken, every member of the
\* keep set has a dependent in the keep set
C27_NothingRemovable ==
  (SizeDone /\ fallback) =>
    \A m \in SeqToSet(keep) : dependentsOf(graph, m) \cap SeqToSet(keep) # {}

\* C28: whenever the closure handed to the size enforcer is dependency-closed
\* and has more than k members, k >= 1, the total weight of what the enforcer
\* returns is at least the total weight of every dependency-closed subset of
\* that closure with at most k members
C28_WeightPreserved ==
  (/\ SizeDone /\ final # <<>> /\ JsGe(k, JsNum(1))
   /\ JsGt(JsNum(final[1].size), k)
   /\ IsClosed(graph, SeqToSet(final[1].closure))) =>
    \A S \in SUBSET SeqToSet(final[1].closure) :
      (IsClosed(graph, S) /\ Cardinality(S) <= k[1]) =>
        result.totalWeight >= SetWeight(graph, S)

\* C29: a call, with a number k if it takes one, on a graph with an edge from
\* a chunk to itself returns the solution of the same call on the graph
\* without that edge
C29_SelfDependencyHarmless ==
  (pc = "done" /\ (call = "solveClosureBySize" => k # Undefined)) =>
    \A j \in 1 .. Len(graph.edges) :
      (graph.edges[j].from = graph.edges[j].to /\ graph.edges[j].from \in ChunkIds(graph)) =>
        result = IF call = "maximumWeightClosure"
                   THEN maximumWeightClosure(WithoutEdge(graph, j))
                   ELSE solveClosureBySize(WithoutEdge(graph, j), k)

\* the ids of the list are in the relative order of their chunks in the graph
InChunkOrder(g, ids) ==
  \A i, j \in 1 .. Len(ids) :
    i < j => findIndex(g.chunks, ids[i]) < findIndex(g.chunks, ids[j])

\* the ids of the list are in descending order of weight, ids of the same
\* weight in the relative order of their chunks in the graph
InWeightOrder(g, ids) ==
  \A i, j \in 1 .. Len(ids) :
    i < j =>
      \/ weightOf(g, ids[i]) > weightOf(g, ids[j])
      \/ /\ weightOf(g, ids[i]) = weightOf(g, ids[j])
         /\ findIndex(g.chunks, ids[i]) < findIndex(g.chunks, ids[j])

\* C30 as claimed: in every result the ids of closure are in the relative
\* order of their chunks in the graph, also after the greedy trimming and
\* after the top-k fallback of the size enforcer
C30_ChunkOrder ==
  pc = "done" => InChunkOrder(graph, result.closure)

\* C30 amended: in every result the ids of closure are in the relative order
\* of their chunks in the graph, also after the greedy trimming of the size
\* enforcer; after its top-k fallback they are in descending order of weight,
\* ids of equal weight in the relative order of their chunks
C30_ChunkOrderUnlessFallback ==
  pc = "done" =>
    IF fallback THEN InWeightOrder(graph, result.closure)
    ELSE InChunkOrder(graph, result.closure)

\* the top-k fallback returned two ids against the order of their chunks
C30_Witness ==
  /\ SizeDone /\ fallback
  /\ result.size = 2
  /\ findIndex(graph.chunks, result.closure[1]) > findIndex(graph.chunks, result.closure[2])

\* the greedy trimming returned two ids, after it removed a chunk that comes
\* between them in the graph
C30_WitnessGreedy ==
  /\ SizeDone /\ ~fallback /\ final # <<>> /\ final[1].size > result.size
  /\ result.size = 2
  /\ \E id \in SeqToSet(final[1].closure) \ SeqToSet(result.closure) :
       /\ findIndex(graph.chunks, result.closure[1]) < findIndex(graph.chunks, id)
       /\ findIndex(graph.chunks, id) < findIndex(graph.chunks, result.closure[2])

====
